---- MODULE Spec2Model ----
(***************************************************************************)
(* The conversational session/context manager of the Google Sheets AI      *)
(* assistant backend (modal_server.py, class CodingContextManager).        *)
(*                                                                         *)
(* A session is a JSON file <session_id>.json holding a list of turns      *)
(* {role, content}.  add_message loads the file, injects the system        *)
(* prompt into an empty history, appends the turn, compacts the history    *)
(* once it is longer than 25 turns and writes the file back.               *)
(*                                                                         *)
(* Text is modelled as a sequence of tokens.  The characters of a turn's   *)
(* content are one token each, so that the slices content[:150] and        *)
(* content[:100] cut where the code cuts; the fixed pieces of the          *)
(* templates are one token each.                                           *)
(***************************************************************************)
EXTENDS Integers, Sequences, FiniteSets, TLC

VARIABLES
    store,   \* the session directory: session id -> file <session_id>.json
    calls,   \* history variable: per session, the turns passed to add_message
    last,    \* the last completed call: its arguments and its return value
    off,     \* number of calls made so far that are not the usual call
    wk       \* the workers handling requests in parallel

vars == <<store, calls, last, off, wk>>

----------------------------------------------------------------------------
(* Program constants *)

Threshold == 25        \* if len(messages) > 25
SkipGuard == 15        \* if len(messages) <= 15: return messages
RecentWindow == 8      \* messages[-8:]
SummaryWindow == 12    \* middle_msgs[-12:]
UserCap == 150         \* msg['content'][:150]
AssistantCap == 100    \* content[:100]

----------------------------------------------------------------------------
(* Bounds of the model *)

MaxAppends == 27       \* add_message calls in one sequential run
MaxOffPattern == 1     \* calls of a run with freely chosen arguments
MaxSystemRun == 6      \* consecutive calls with role system in one run
MaxRequests == 3       \* add_message calls started in one concurrent run
MaxInputLen == 50      \* longest list handed to summarize_coding_context
MaxPipeline == 2       \* requests received in one run of the endpoint
MaxRawLen == 4         \* longest raw output handed to the response clean-up
MaxShapeAppends == 2   \* add_message calls on a file with a malformed turn
MaxLongRun == 60       \* add_message calls in one long run
MaxInFlight == 2       \* requests the client sends in a racing run
LongLen == 151         \* characters of the long sample content

----------------------------------------------------------------------------
(* Input sets *)

Sessions == {"s1", "s2"}
Roles == {"system", "user", "assistant"}
Workers == {"w1", "w2"}

Min(a, b) == IF a < b THEN a ELSE b
Max(a, b) == IF a > b THEN a ELSE b

Short == <<"S", "u", "m">>
\* one character of a code fence (a backquote)
Backquote == "BQ"
Fenced == <<Backquote, Backquote, Backquote, "=", Backquote, Backquote, Backquote>>
Long == [i \in 1..LongLen |-> "x"]
Contents == {Short, Fenced, Long}

\* metadata: None, the empty mapping {}, or a mapping (its items in order)
NoneMeta == [none |-> TRUE, items |-> <<>>]
EmptyMeta == [none |-> FALSE, items |-> <<>>]
Meta1 == [none |-> FALSE, items |-> <<<<"rows", "10">>>>]
Meta2 == [none |-> FALSE, items |-> <<<<"rows", "20">>, <<"cols", "3">>>>]
Metas == {NoneMeta, EmptyMeta, Meta1, Meta2}

Turn(role, content) == [role |-> role, content |-> content]

----------------------------------------------------------------------------
(* Python list and string operations *)

\* s[a:b] of Python for a, b >= 0 or negative (counted from the end)
PySlice(s, a, b) ==
    LET n == Len(s)
        lo == IF a < 0 THEN Max(n + a, 0) ELSE Min(a, n)
        hi == IF b < 0 THEN Max(n + b, 0) ELSE Min(b, n)
    IN  IF lo >= hi THEN <<>> ELSE SubSeq(s, lo + 1, hi)

\* s[-k:] of Python, k > 0
PyTail(s, k) == PySlice(s, -k, Len(s))

\* s[:k] of Python, k >= 0
PyHead(s, k) == PySlice(s, 0, k)

\* the test for a code fence (three backquotes) in content
HasFence(content) ==
    \E i \in 1..(Len(content) - 2) :
        /\ content[i] = Backquote
        /\ content[i + 1] = Backquote
        /\ content[i + 2] = Backquote

\* mutant: "if metadata is not None" in place of "if metadata"
TruthyNotNone(meta) == ~meta.none

\* bool(metadata): None and {} are falsy
Truthy(meta) == ~meta.none /\ meta.items # <<>>

\* json.dumps(metadata, indent=2) of a mapping
RECURSIVE JsonItems(_)
JsonItems(items) ==
    IF items = <<>> THEN <<>>
    ELSE <<"\n  \"", items[1][1], "\": ", items[1][2]>>
         \o (IF Len(items) > 1 THEN <<",">> ELSE <<>>)
         \o JsonItems(Tail(items))

JsonDumps(meta) ==
    IF meta.none THEN <<"null">>
    ELSE IF meta.items = <<>> THEN <<"{}">>
    ELSE <<"{">> \o JsonItems(meta.items) \o <<"\n}">>

----------------------------------------------------------------------------
(* CodingContextManager *)

PromptHead == "You are an expert coding assistant ... Current spreadsheet context:\n"
PromptTail == "\n\nYour expertise includes: ... spreadsheet environments."
NoContextMarker == "No spreadsheet data available"
SummaryHeader == "Previous coding conversation summary:\n"

\* the file written by save_session: json.dumps(messages, indent=2)
FileOf(messages) == [valid |-> TRUE, turns |-> messages]

\* mutant: an absent session is loaded as a history that was already started
LoadSessionStarted(st, session_id) ==
    IF session_id \in DOMAIN st
    THEN IF st[session_id].valid THEN st[session_id].turns ELSE <<>>
    ELSE <<Turn("system", <<PromptHead, NoContextMarker, PromptTail>>)>>

\* mutant: a file that does not parse is loaded as the turns it begins with
LoadSessionLenient(st, session_id) ==
    IF session_id \in DOMAIN st THEN st[session_id].turns ELSE <<>>

\* load_session
LoadSession(st, session_id) ==
    IF session_id \in DOMAIN st
    THEN IF st[session_id].valid THEN st[session_id].turns ELSE <<>>
    ELSE <<>>

\* what the file system does to one write_text: it writes the text ("ok"),
\* it raises before the file is opened ("error"), or it raises after the file
\* was opened and cut, leaving the beginning of the text ("partial")
IoOutcomes == {"ok", "error", "partial"}

\* the file left by a write that broke off: not JSON, json.loads raises
PartialFileOf(messages) ==
    [valid |-> FALSE, turns |-> SubSeq(messages, 1, Len(messages) - 1)]

\* save_session: mkdir and write_text inside try; "except Exception" prints
\* the error and the method returns normally
SaveSessionIo(st, session_id, messages, io) ==
    IF io = "error" THEN st
    ELSE [s \in (DOMAIN st) \cup {session_id} |->
            IF s = session_id
            THEN IF io = "ok" THEN FileOf(messages) ELSE PartialFileOf(messages)
            ELSE st[s]]

\* mutant: the list is written to the file of every session
SaveSessionEverywhere(st, session_id, messages) ==
    [s \in (DOMAIN st) \cup {session_id} |-> FileOf(messages)]

\* save_session on a file system that works
SaveSession(st, session_id, messages) ==
    SaveSessionIo(st, session_id, messages, "ok")

\* _create_coding_system_prompt
CreateCodingSystemPrompt(meta) ==
    <<PromptHead>>
    \o (IF Truthy(meta) THEN JsonDumps(meta) ELSE <<NoContextMarker>>)
    \o <<PromptTail>>

\* mutant: the paraphrase is the whole content of the turn
SummaryLineUncapped(msg) ==
    IF msg.role = "user"
    THEN <<"* User asked: ">> \o msg.content \o <<"...\n">>
    ELSE IF msg.role = "assistant"
    THEN IF HasFence(msg.content)
         THEN <<"-  Assistant provided code solution\n">>
         ELSE <<"-  Assistant explained: ">> \o msg.content \o <<"...\n">>
    ELSE <<>>

\* the line of the summary for one middle turn
SummaryLine(msg) ==
    IF msg.role = "user"
    THEN <<"* User asked: ">> \o PyHead(msg.content, UserCap) \o <<"...\n">>
    ELSE IF msg.role = "assistant"
    THEN IF HasFence(msg.content)
         THEN <<"-  Assistant provided code solution\n">>
         ELSE <<"-  Assistant explained: ">> \o PyHead(msg.content, AssistantCap)
              \o <<"...\n">>
    ELSE <<>>

RECURSIVE SummaryLines(_)
SummaryLines(msgs) ==
    IF msgs = <<>> THEN <<>>
    ELSE SummaryLine(Head(msgs)) \o SummaryLines(Tail(msgs))

SystemMsgs(messages) == SelectSeq(messages, LAMBDA m : m.role = "system")

\* mutant: the window of recent turns ends before the turn just appended
RecentMsgsShifted(messages) == PySlice(messages, -(RecentWindow + 1), -1)

\* mutant: one more turn is kept as recent
RecentMsgsWide(messages) == PyTail(messages, RecentWindow + 1)

RecentMsgs(messages) == PyTail(messages, RecentWindow)

MiddleMsgs(messages) ==
    PySlice(messages, Len(SystemMsgs(messages)), -RecentWindow)

\* mutant: every middle turn is summarized
SelectedMsgsAll(messages) == MiddleMsgs(messages)

SelectedMsgs(messages) == PyTail(MiddleMsgs(messages), SummaryWindow)

SummaryText(messages) == <<SummaryHeader>> \o SummaryLines(SelectedMsgs(messages))

\* mutant: the old system turn is kept as the basis of the new one
SummaryMsgStale(messages, meta) ==
    Turn("system", messages[1].content \o <<"\n\n">> \o SummaryText(messages))

SummaryMsg(messages, meta) ==
    Turn("system",
         CreateCodingSystemPrompt(meta) \o <<"\n\n">> \o SummaryText(messages))

\* mutant: the old system turns are returned in front of the new one
SummarizeKeepSystem(messages, meta) ==
    IF Len(messages) <= SkipGuard THEN messages
    ELSE SystemMsgs(messages) \o <<SummaryMsg(messages, meta)>>
         \o RecentMsgs(messages)

\* summarize_coding_context
SummarizeCodingContext(messages, meta) ==
    IF Len(messages) <= SkipGuard THEN messages
    ELSE <<SummaryMsg(messages, meta)>> \o RecentMsgs(messages)

\* mutant: the new turn is inserted right after the first turn
AppendedFront(loaded, role, content, meta) ==
    LET base == IF loaded = <<>>
                THEN <<Turn("system", CreateCodingSystemPrompt(meta))>>
                ELSE loaded
    IN  <<Head(base), Turn(role, content)>> \o Tail(base)

\* mutant: every append rebuilds the system turn from its metadata
AppendedRefreshed(loaded, role, content, meta) ==
    <<Turn("system", CreateCodingSystemPrompt(meta))>>
    \o (IF loaded = <<>> THEN <<>> ELSE Tail(loaded))
    \o <<Turn(role, content)>>

\* add_message, lines 125-132: the list after the new turn was appended
Appended(loaded, role, content, meta) ==
    (IF loaded = <<>>
     THEN <<Turn("system", CreateCodingSystemPrompt(meta))>>
     ELSE loaded)
    \o <<Turn(role, content)>>

\* mutant: compaction already at the threshold length
TooLongAtThreshold(messages) == Len(messages) >= Threshold

\* mutant: compaction only beyond one turn more than the threshold
TooLongLate(messages) == Len(messages) > Threshold + 1

\* add_message, line 135
TooLong(messages) == Len(messages) > Threshold

\* add_message, lines 125-136: the list that is saved and returned
AddMessageResult(loaded, role, content, meta) ==
    LET messages == Appended(loaded, role, content, meta)
    IN  IF TooLong(messages)
        THEN SummarizeCodingContext(messages, meta)
        ELSE messages

----------------------------------------------------------------------------
(* Sequential runs: every call completes before the next one starts *)

NoCall ==
    [op |-> "none", sid |-> "s1", role |-> "user", content |-> <<>>,
     meta |-> NoneMeta, pre |-> <<>>, compacted |-> FALSE, result |-> <<>>,
     io |-> "ok"]

NoWork ==
    [pc |-> "idle", sid |-> "s1", role |-> "user", content |-> <<>>,
     meta |-> NoneMeta, messages |-> <<>>]

Init ==
    /\ store = [s \in {} |-> FileOf(<<>>)]
    /\ calls = [s \in Sessions |-> <<>>]
    /\ last = NoCall
    /\ off = 0
    /\ wk = [w \in Workers |-> NoWork]

TotalCalls == Len(calls["s1"]) + Len(calls["s2"])

\* the usual call: user and assistant turns alternate on session s1
PatternRole(n) == IF n % 2 = 0 THEN "user" ELSE "assistant"

IsPattern(sid, role, content, meta) ==
    /\ sid = "s1"
    /\ role = PatternRole(Len(calls[sid]))
    /\ content = Short
    /\ meta = Meta1

\* one complete call add_message(session_id, role, content, metadata), the
\* write of save_session ending as io says; the list is returned either way
AddMessageIo(sid, role, content, meta, io) ==
    LET loaded == LoadSession(store, sid)
        pre == Appended(loaded, role, content, meta)
        messages == AddMessageResult(loaded, role, content, meta)
    IN  /\ store' = SaveSessionIo(store, sid, messages, io)
        /\ last' = [op |-> "append", sid |-> sid, role |-> role,
                    content |-> content, meta |-> meta, pre |-> pre,
                    compacted |-> TooLong(pre), result |-> messages,
                    io |-> io]
        /\ calls' = [calls EXCEPT ![sid] = Append(@, Turn(role, content))]

\* add_message on a file system that works
AddMessage(sid, role, content, meta) ==
    AddMessageIo(sid, role, content, meta, "ok")

\* a call of the run: the usual call, or one of the few free calls
AppendTurn(sid, role, content, meta) ==
    /\ TotalCalls < MaxAppends
    /\ IsPattern(sid, role, content, meta) \/ off < MaxOffPattern
    /\ AddMessage(sid, role, content, meta)
    /\ off' = IF IsPattern(sid, role, content, meta) THEN off ELSE off + 1
    /\ UNCHANGED wk

\* load_session(session_id), one of the few free calls of the run
Load(sid) ==
    /\ off < MaxOffPattern
    /\ last' = [NoCall EXCEPT !.op = "load", !.sid = sid,
                              !.result = LoadSession(store, sid)]
    /\ off' = off + 1
    /\ UNCHANGED <<store, calls, wk>>

Next ==
    \/ \E role \in Roles, content \in Contents, meta \in Metas :
         AppendTurn("s1", role, content, meta)
    \/ \E sid \in Sessions : Load(sid)

Spec == Init /\ [][Next]_vars

----------------------------------------------------------------------------
(* Sequential runs in which one stretch of consecutive calls has role      *)
(* system: add_message takes any role                                      *)

PatternAppend ==
    /\ TotalCalls < MaxAppends
    /\ AddMessage("s1", PatternRole(Len(calls["s1"])), Short, Meta1)
    /\ UNCHANGED <<off, wk>>

SystemAppend ==
    /\ TotalCalls < MaxAppends
    /\ off < MaxSystemRun
    /\ off = 0 \/ (last.op = "append" /\ last.role = "system")
    /\ AddMessage("s1", "system", Short, Meta1)
    /\ off' = off + 1
    /\ UNCHANGED wk

NextSys == PatternAppend \/ SystemAppend

SpecSys == Init /\ [][NextSys]_vars

----------------------------------------------------------------------------
(* Concurrent runs: allow_concurrent_inputs lets several requests run      *)
(* add_message at the same time; the file is read at line 125 and written  *)
(* at line 138 and nothing locks it in between                             *)

\* the requests append user turns and assistant turns (lines 223 and 295)
ConcRoles == {"user", "assistant"}
ConcContents == {Short, Fenced}
ConcMetas == {NoneMeta, Meta1}

Started == TotalCalls + Cardinality({w \in Workers : wk[w].pc = "loaded"})

\* add_message up to line 136: read the file, build the list to save
WLoad(w, sid, role, content, meta) ==
    /\ wk[w].pc = "idle"
    /\ Started < MaxRequests
    /\ wk' = [wk EXCEPT ![w] =
                [pc |-> "loaded", sid |-> sid, role |-> role,
                 content |-> content, meta |-> meta,
                 messages |-> AddMessageResult(LoadSession(store, sid),
                                               role, content, meta)]]
    /\ UNCHANGED <<store, calls, last, off>>

\* add_message from line 138: write the file, return
WSave(w) ==
    /\ wk[w].pc = "loaded"
    /\ store' = SaveSession(store, wk[w].sid, wk[w].messages)
    /\ calls' = [calls EXCEPT ![wk[w].sid] =
                    Append(@, Turn(wk[w].role, wk[w].content))]
    /\ wk' = [wk EXCEPT ![w] = NoWork]
    /\ UNCHANGED <<last, off>>

NextConc ==
    \/ \E w \in Workers, sid \in Sessions, role \in ConcRoles,
          content \in ConcContents, meta \in ConcMetas :
         WLoad(w, sid, role, content, meta)
    \/ \E w \in Workers : WSave(w)

SpecConc == Init /\ [][NextConc]_vars

----------------------------------------------------------------------------
(* summarize_coding_context as a function of its arguments                 *)

\* the lists handed to it: a system turn followed by alternating user and
\* assistant turns, with one turn at any place replaced by any turn
InputList(n, k, t) ==
    [i \in 1..n |->
        IF i = k THEN t
        ELSE IF i = 1
             THEN Turn("system", CreateCodingSystemPrompt(Meta1))
             ELSE Turn(PatternRole(i), Short)]

InputLists ==
    {<<>>} \cup
    {InputList(n, k, Turn(r, c)) :
        n \in 1..MaxInputLen, k \in 1..MaxInputLen, r \in Roles, c \in Contents}

InitCompactor ==
    /\ store = [s \in {} |-> FileOf(<<>>)]
    /\ calls = [s \in Sessions |-> <<>>]
    /\ \E messages \in InputLists, meta \in Metas :
         last = [NoCall EXCEPT !.op = "input", !.pre = messages, !.meta = meta]
    /\ off = 0
    /\ wk = [w \in Workers |-> NoWork]

Summarize ==
    /\ last.op = "input"
    /\ last' = [last EXCEPT
                  !.op = "summarize",
                  !.compacted = (Len(last.pre) > SkipGuard),
                  !.result = SummarizeCodingContext(last.pre, last.meta)]
    /\ UNCHANGED <<store, calls, off, wk>>

NextCompactor == Summarize

SpecCompactor == InitCompactor /\ [][NextCompactor]_vars

----------------------------------------------------------------------------
(* Python string operations on token sequences *)

\* the whitespace characters str.strip() removes
IsSpace(t) == t \in {" ", "\n", "\t"}

RECURSIVE LStrip(_)
LStrip(s) ==
    IF s # <<>> /\ IsSpace(Head(s)) THEN LStrip(Tail(s)) ELSE s

RECURSIVE RStrip(_)
RStrip(s) ==
    IF s # <<>> /\ IsSpace(s[Len(s)]) THEN RStrip(SubSeq(s, 1, Len(s) - 1)) ELSE s

\* s.strip()
Strip(s) == RStrip(LStrip(s))

\* tok in s
Contains(s, tok) == \E i \in 1..Len(s) : s[i] = tok

\* s.split(tok)[-1]: the text after the last tok, all of s when there is none
AfterLast(s, tok) ==
    IF Contains(s, tok)
    THEN LET i == CHOOSE j \in 1..Len(s) :
                    s[j] = tok /\ \A k \in (j + 1)..Len(s) : s[k] # tok
         IN  SubSeq(s, i + 1, Len(s))
    ELSE s

\* s.split('\n')
RECURSIVE SplitLines(_)
SplitLines(s) ==
    IF Contains(s, "\n")
    THEN LET i == CHOOSE j \in 1..Len(s) :
                    s[j] = "\n" /\ \A k \in 1..(j - 1) : s[k] # "\n"
         IN  <<SubSeq(s, 1, i - 1)>> \o SplitLines(SubSeq(s, i + 1, Len(s)))
    ELSE <<s>>

\* '\n'.join(lines)
RECURSIVE JoinLines(_)
JoinLines(lines) ==
    IF lines = <<>> THEN <<>>
    ELSE IF Len(lines) = 1 THEN lines[1]
    ELSE lines[1] \o <<"\n">> \o JoinLines(Tail(lines))

\* role.title()
Title(role) ==
    CASE role = "system" -> "System"
      [] role = "user" -> "User"
      [] role = "assistant" -> "Assistant"
      [] OTHER -> role

----------------------------------------------------------------------------
(* coding_query_endpoint and coding_llm_inference *)

EchoLabels == {"User:", "Human:", "Assistant:"}

\* line.startswith(('User:', 'Human:', 'Assistant:'))
StartsWithLabel(line) == line # <<>> /\ line[1] \in EchoLabels

\* lines 280-292: the clean-up of the output of llama-cli
CleanResponse(raw) ==
    LET stripped == Strip(raw)
        answer == IF Contains(stripped, "Assistant:")
                  THEN Strip(AfterLast(stripped, "Assistant:"))
                  ELSE stripped
        cleaned_lines == SelectSeq(SplitLines(answer),
                                   LAMBDA line : ~StartsWithLabel(line))
    IN  Strip(JoinLines(cleaned_lines))

\* lines 210-220: the prompt wrapped with the spreadsheet context
CodingPrompt(prompt, meta) ==
    <<"\nSpreadsheet Context: ">>
    \o (IF Truthy(meta) THEN JsonDumps(meta) ELSE <<"No spreadsheet loaded">>)
    \o <<"\n\nUser Request: ">> \o prompt
    \o <<"\n\nPlease provide a practical solution with: ...\n">>

\* one block "Role: content" of the transcript
TranscriptBlock(msg) == <<Title(msg.role), ": ">> \o msg.content

RECURSIVE TranscriptBlocks(_)
TranscriptBlocks(messages) ==
    IF messages = <<>> THEN <<>>
    ELSE IF Len(messages) = 1 THEN TranscriptBlock(messages[1])
    ELSE TranscriptBlock(messages[1]) \o <<"\n">> \o TranscriptBlocks(Tail(messages))

\* mutant: the transcript ends with the last turn, without the cue
BuildTranscriptNoCue(messages) == TranscriptBlocks(messages)

\* lines 226-229: context_text
BuildTranscript(messages) == TranscriptBlocks(messages) \o <<"\n", "Assistant:">>

\* mutant: the prompt is not tested
RejectedNever(prompt) == FALSE

\* line 336: if not prompt
Rejected(prompt) == prompt = <<>>

\* line 340: metadata or {}
MetaOrEmpty(meta) == IF Truthy(meta) THEN meta ELSE EmptyMeta

\* how subprocess.run ends: with the output of llama-cli, with a non-zero
\* exit status (check=True), or after 300 seconds (timeout=300)
RawSamples ==
    {<<"=", "S">>, <<"x", "\n", "Assistant:", " ", "=", "A", "\n", "User:", "q">>}

EngineOutcomes ==
    {[kind |-> "ok", raw |-> r] : r \in RawSamples}
    \cup {[kind |-> "CalledProcessError", raw |-> <<>>],
          [kind |-> "TimeoutExpired", raw |-> <<>>]}

\* line 337
RejectResponse == [error |-> <<"No prompt provided">>]

\* lines 247-251
NoModelResponse(sid, model_choice) ==
    [session_id |-> sid,
     response |-> <<"Model ", model_choice,
                    " not found. Please run setup_coding_models first.">>,
     error |-> <<"Model not available">>]

\* lines 298-303
SuccessResponse(sid, response, model_choice, meta) ==
    [session_id |-> sid, response |-> response, model_used |-> model_choice,
     metadata |-> meta]

\* lines 305-312
ProcessErrorResponse(sid, model_choice) ==
    [session_id |-> sid,
     response |-> <<"I encountered an error processing your coding request. Please try again with a simpler query.">>,
     error |-> <<"Command returned non-zero exit status 1.">>,
     model_used |-> model_choice]

\* lines 313-319
UnexpectedResponse(sid) ==
    [session_id |-> sid,
     response |-> <<"An unexpected error occurred. Please try again.">>,
     error |-> <<"Command timed out after 300 seconds">>]

\* lines 294-319: the response to an outcome of the engine
EngineResponse(sid, outcome, model_choice, meta) ==
    CASE outcome.kind = "ok" ->
           SuccessResponse(sid, CleanResponse(outcome.raw), model_choice, meta)
      [] outcome.kind = "CalledProcessError" ->
           ProcessErrorResponse(sid, model_choice)
      [] OTHER -> UnexpectedResponse(sid)

\* mutant: the assistant turn is appended however subprocess.run ended
AppendsAssistantAlways(outcome) == TRUE

\* line 295 is reached when subprocess.run returned
AppendsAssistant(outcome) == outcome.kind = "ok"

----------------------------------------------------------------------------
(* Requests to the endpoint, handled one at a time *)

NoSession == ""
ReqSessions == {NoSession, "s1"}
Prompts == {<<>>, Short}
ReqMetas == {NoneMeta, Meta1}
Models == {"phi-3.5-mini", "gpt"}
NoResponse == [pending |-> TRUE]

NoRequest ==
    [pc |-> "idle", n |-> 0, sid |-> "s1", prompt |-> <<>>, meta |-> NoneMeta,
     model |-> "phi-3.5-mini", messages |-> <<>>, context |-> <<>>, ran |-> 0,
     outcome |-> "none", userIo |-> "ok", resp |-> NoResponse]

InitReq ==
    /\ store = [s \in {} |-> FileOf(<<>>)]
    /\ calls = [s \in Sessions |-> <<>>]
    /\ last = NoCall
    /\ off = 0
    /\ wk = [w \in Workers |-> NoRequest]

\* coding_query_endpoint: a session id when none came (fresh stands for
\* uuid4), the test of the prompt, then the remote call of the inference
Endpoint(w, session_id, prompt, metadata, model, fresh) ==
    /\ wk[w].pc \in {"idle", "done"}
    /\ wk[w].n < MaxPipeline
    /\ fresh \notin DOMAIN store
    /\ LET sid == IF session_id = NoSession THEN fresh ELSE session_id
           r == [NoRequest EXCEPT !.n = wk[w].n + 1, !.sid = sid,
                                  !.prompt = prompt,
                                  !.meta = MetaOrEmpty(metadata),
                                  !.model = model]
       IN  wk' = [wk EXCEPT ![w] =
                    IF Rejected(prompt)
                    THEN [r EXCEPT !.pc = "done", !.outcome = "rejected",
                                   !.resp = RejectResponse]
                    ELSE [r EXCEPT !.pc = "called"]]
    /\ UNCHANGED <<store, calls, last, off>>

\* coding_llm_inference, lines 206-223: the user turn is appended
UserAppend(w, io) ==
    /\ wk[w].pc = "called"
    /\ AddMessageIo(wk[w].sid, "user", CodingPrompt(wk[w].prompt, wk[w].meta),
                    wk[w].meta, io)
    /\ wk' = [wk EXCEPT ![w].pc = "appended",
                        ![w].userIo = io,
                        ![w].messages =
                            AddMessageResult(LoadSession(store, wk[w].sid), "user",
                                             CodingPrompt(wk[w].prompt, wk[w].meta),
                                             wk[w].meta)]
    /\ UNCHANGED off

\* mutant: the transcript is built from the session file read once more
PrepareReloaded(w, present) ==
    /\ wk[w].pc = "appended"
    /\ wk' = [wk EXCEPT
                ![w].messages = LoadSession(store, wk[w].sid),
                ![w].context = BuildTranscript(LoadSession(store, wk[w].sid)),
                ![w].pc = IF present THEN "engine" ELSE "done",
                ![w].ran = IF present THEN wk[w].ran + 1 ELSE wk[w].ran,
                ![w].outcome = IF present THEN "running" ELSE "no model",
                ![w].resp = IF present THEN NoResponse
                            ELSE NoModelResponse(wk[w].sid, wk[w].model)]
    /\ UNCHANGED <<store, calls, last, off>>

\* lines 225-278: the transcript, the model files, the start of llama-cli
Prepare(w, present) ==
    /\ wk[w].pc = "appended"
    /\ wk' = [wk EXCEPT
                ![w].context = BuildTranscript(wk[w].messages),
                ![w].pc = IF present THEN "engine" ELSE "done",
                ![w].ran = IF present THEN wk[w].ran + 1 ELSE wk[w].ran,
                ![w].outcome = IF present THEN "running" ELSE "no model",
                ![w].resp = IF present THEN NoResponse
                            ELSE NoModelResponse(wk[w].sid, wk[w].model)]
    /\ UNCHANGED <<store, calls, last, off>>

\* mutant: llama-cli is started once more after a failed run
FinishRetry(w, outcome, io) ==
    /\ wk[w].pc = "engine"
    /\ IF AppendsAssistant(outcome)
       THEN /\ AddMessageIo(wk[w].sid, "assistant", CleanResponse(outcome.raw),
                            wk[w].meta, io)
            /\ wk' = [wk EXCEPT
                        ![w].pc = "done",
                        ![w].outcome = outcome.kind,
                        ![w].resp = EngineResponse(wk[w].sid, outcome,
                                                   wk[w].model, wk[w].meta)]
       ELSE /\ io = "ok"
            /\ wk[w].ran < 3
            /\ wk' = [wk EXCEPT ![w].ran = wk[w].ran + 1]
            /\ UNCHANGED <<store, calls, last>>
    /\ UNCHANGED off

\* lines 280-319: subprocess.run ended; the assistant turn, the response
Finish(w, outcome, io) ==
    /\ wk[w].pc = "engine"
    /\ IF AppendsAssistant(outcome)
       THEN AddMessageIo(wk[w].sid, "assistant", CleanResponse(outcome.raw),
                         wk[w].meta, io)
       ELSE io = "ok" /\ UNCHANGED <<store, calls, last>>
    /\ wk' = [wk EXCEPT
                ![w].pc = "done",
                ![w].outcome = outcome.kind,
                ![w].resp = EngineResponse(wk[w].sid, outcome, wk[w].model,
                                           wk[w].meta)]
    /\ UNCHANGED off

NextReq ==
    \/ \E session_id \in ReqSessions, prompt \in Prompts, metadata \in ReqMetas,
          model \in Models, fresh \in Sessions :
         Endpoint("w1", session_id, prompt, metadata, model, fresh)
    \/ UserAppend("w1", "ok")
    \/ \E present \in BOOLEAN : Prepare("w1", present)
    \/ \E outcome \in EngineOutcomes : Finish("w1", outcome, "ok")

SpecReq == InitReq /\ [][NextReq]_vars

\* the same requests on a file system whose writes can fail
NextFail ==
    \/ \E session_id \in ReqSessions, prompt \in Prompts, metadata \in ReqMetas,
          model \in Models, fresh \in Sessions :
         Endpoint("w1", session_id, prompt, metadata, model, fresh)
    \/ \E io \in IoOutcomes : UserAppend("w1", io)
    \/ \E present \in BOOLEAN : Prepare("w1", present)
    \/ \E outcome \in EngineOutcomes, io \in IoOutcomes : Finish("w1", outcome, io)
    \/ \E sid \in Sessions : Load(sid)

SpecFail == InitReq /\ [][NextFail]_vars

----------------------------------------------------------------------------
(* The response clean-up as a function of the output of llama-cli *)

\* what the output is made of: a letter, a blank, a line break and the
\* three labels the clean-up looks for
RawAlphabet == {"a", " ", "\n"} \cup EchoLabels

RawTexts == UNION {[1..n -> RawAlphabet] : n \in 0..MaxRawLen}

InitClean ==
    /\ store = [s \in {} |-> FileOf(<<>>)]
    /\ calls = [s \in Sessions |-> <<>>]
    /\ \E raw \in RawTexts :
         last = [NoCall EXCEPT !.op = "raw", !.role = "assistant", !.content = raw]
    /\ off = 0
    /\ wk = [w \in Workers |-> NoWork]

\* lines 280-292 applied to result.stdout
Clean ==
    /\ last.op = "raw"
    /\ last' = [last EXCEPT !.op = "clean", !.result = CleanResponse(last.content)]
    /\ UNCHANGED <<store, calls, off, wk>>

NextClean == Clean

SpecClean == InitClean /\ [][NextClean]_vars

----------------------------------------------------------------------------
(* Session files that parse but hold a turn of another shape *)

\* load_session returns whatever json.loads makes of the file: a turn that
\* was not written by add_message may lack a key
MalformedTurns == {[role |-> "user"], [role |-> "assistant"], [content |-> Short]}

\* summarize_coding_context raises KeyError: m["role"] is read of every
\* turn (line 167), msg['content'] of the user and assistant turns among
\* middle_msgs[-12:] (lines 176-178)
SummarizeRaises(messages) ==
    /\ Len(messages) > SkipGuard
    /\ \/ \E i \in 1..Len(messages) : "role" \notin DOMAIN messages[i]
       \/ \E i \in 1..Len(SelectedMsgs(messages)) :
             /\ SelectedMsgs(messages)[i].role \in {"user", "assistant"}
             /\ "content" \notin DOMAIN SelectedMsgs(messages)[i]

\* add_message raises: nothing catches what line 136 raises
AddMessageRaises(loaded, role, content, meta) ==
    /\ TooLong(Appended(loaded, role, content, meta))
    /\ SummarizeRaises(Appended(loaded, role, content, meta))

ShapeLens == {Threshold - 1, Threshold}

InitShape ==
    /\ \E n \in ShapeLens, k \in 2..Threshold, t \in MalformedTurns :
         /\ k <= n
         /\ store = [s \in {"s1"} |-> FileOf(InputList(n, k, t))]
    /\ calls = [s \in Sessions |-> <<>>]
    /\ last = NoCall
    /\ off = 0
    /\ wk = [w \in Workers |-> NoWork]

\* one call of add_message on such a file: it returns, or it ends with the
\* KeyError of the compaction before save_session is reached
ShapeAppend(sid, role, content, meta) ==
    /\ off < MaxShapeAppends
    /\ off' = off + 1
    /\ IF AddMessageRaises(LoadSession(store, sid), role, content, meta)
       THEN /\ last' = [NoCall EXCEPT !.op = "KeyError", !.sid = sid,
                                      !.role = role, !.content = content,
                                      !.meta = meta]
            /\ UNCHANGED <<store, calls>>
       ELSE AddMessage(sid, role, content, meta)
    /\ UNCHANGED wk

NextShape ==
    \E role \in ConcRoles, meta \in {NoneMeta, Meta1} :
        ShapeAppend("s1", role, Short, meta)

SpecShape == InitShape /\ [][NextShape]_vars

----------------------------------------------------------------------------
(* Long runs: one session, user and assistant turns in alternation *)

\* the content of the k-th turn of the run, different for every k
LongContent(k) == <<"turn" \o ToString(k)>>

\* the k-th call of the run
LongAppend(meta) ==
    /\ Len(calls["s1"]) < MaxLongRun
    /\ AddMessage("s1", PatternRole(Len(calls["s1"])),
                  LongContent(Len(calls["s1"]) + 1), meta)
    /\ UNCHANGED <<off, wk>>

NextLong == \E meta \in {Meta1, Meta2} : LongAppend(meta)

SpecLong == Init /\ [][NextLong]_vars

----------------------------------------------------------------------------
(* Requests of one client in flight at the same time *)

\* what the user types into the chat input
ClientMessages == {<<>>, Short, <<"W", "h", "y">>}

\* sendMessage of the extension: an empty input is dropped, and nothing
\* keeps the user from sending again before the answer came; queryAI posts
\* the session id of the page, the prompt, the metadata and the model
SendMessage(w, message) ==
    /\ message # <<>>
    /\ wk["w1"].n + wk["w2"].n < MaxInFlight
    /\ Endpoint(w, "s1", message, Meta1, "qwen-2.5-coder-14b", "s2")

\* add_message of the user turn up to line 136: the file is read and the
\* list to save is built
UserLoad(w) ==
    /\ wk[w].pc = "called"
    /\ wk' = [wk EXCEPT
                ![w].pc = "user loaded",
                ![w].messages =
                    AddMessageResult(LoadSession(store, wk[w].sid), "user",
                                     CodingPrompt(wk[w].prompt, wk[w].meta),
                                     wk[w].meta)]
    /\ UNCHANGED <<store, calls, last, off>>

\* add_message of the user turn from line 138: the file is written and the
\* list is returned to coding_llm_inference
UserSave(w) ==
    /\ wk[w].pc = "user loaded"
    /\ store' = SaveSession(store, wk[w].sid, wk[w].messages)
    /\ calls' = [calls EXCEPT ![wk[w].sid] =
                    Append(@, Turn("user", CodingPrompt(wk[w].prompt, wk[w].meta)))]
    /\ last' = [NoCall EXCEPT !.op = "append", !.sid = wk[w].sid,
                              !.content = CodingPrompt(wk[w].prompt, wk[w].meta),
                              !.meta = wk[w].meta, !.result = wk[w].messages]
    /\ wk' = [wk EXCEPT ![w].pc = "appended"]
    /\ UNCHANGED off

\* llama-cli returned its output: add_message of the assistant turn up to
\* line 136
AssistantLoad(w, outcome) ==
    /\ wk[w].pc = "engine"
    /\ AppendsAssistant(outcome)
    /\ wk' = [wk EXCEPT
                ![w].pc = "replying",
                ![w].outcome = outcome.kind,
                ![w].resp = EngineResponse(wk[w].sid, outcome, wk[w].model,
                                           wk[w].meta),
                ![w].messages =
                    AddMessageResult(LoadSession(store, wk[w].sid), "assistant",
                                     CleanResponse(outcome.raw), wk[w].meta)]
    /\ UNCHANGED <<store, calls, last, off>>

\* add_message of the assistant turn from line 138, and the return
AssistantSave(w) ==
    /\ wk[w].pc = "replying"
    /\ store' = SaveSession(store, wk[w].sid, wk[w].messages)
    /\ calls' = [calls EXCEPT ![wk[w].sid] =
                    Append(@, Turn("assistant", wk[w].resp.response))]
    /\ last' = [NoCall EXCEPT !.op = "append", !.sid = wk[w].sid,
                              !.role = "assistant",
                              !.content = wk[w].resp.response,
                              !.meta = wk[w].meta, !.result = wk[w].messages]
    /\ wk' = [wk EXCEPT ![w].pc = "done"]
    /\ UNCHANGED off

\* llama-cli failed or timed out: the except branches
EngineFails(w, outcome) ==
    /\ ~AppendsAssistant(outcome)
    /\ Finish(w, outcome, "ok")

NextRace ==
    \/ \E w \in Workers, message \in ClientMessages : SendMessage(w, message)
    \/ \E w \in Workers : UserLoad(w)
    \/ \E w \in Workers : UserSave(w)
    \/ \E w \in Workers, present \in BOOLEAN : Prepare(w, present)
    \/ \E w \in Workers, outcome \in EngineOutcomes : AssistantLoad(w, outcome)
    \/ \E w \in Workers : AssistantSave(w)
    \/ \E w \in Workers, outcome \in EngineOutcomes : EngineFails(w, outcome)

\* the session of the page is new, or it holds the turns of earlier
\* requests and is one or two turns away from compaction
RaceLens == {0, Threshold - 1, Threshold}

InitRace ==
    /\ \E n \in RaceLens :
         store = [s \in (IF n = 0 THEN {} ELSE {"s1"}) |->
                    FileOf(InputList(n, 1,
                                     Turn("system", CreateCodingSystemPrompt(Meta1))))]
    /\ calls = [s \in Sessions |-> <<>>]
    /\ last = NoCall
    /\ off = 0
    /\ wk = [w \in Workers |-> NoRequest]

SpecRace == InitRace /\ [][NextRace]_vars

----------------------------------------------------------------------------
(* Properties *)

Stored(s) == IF s \in DOMAIN store THEN store[s].turns ELSE <<>>

LastAppend == last.op = "append"

\* number of times turn t occurs in the list
Count(list, t) == Cardinality({i \in 1..Len(list) : list[i] = t})

\* C1: system-turn singularity. After every add_message call the stored
\* sequence of the session holds exactly one turn of role system, and that
\* turn is the first element.
C1_SystemTurnSingularity ==
    \A s \in DOMAIN store :
        /\ Len(SystemMsgs(Stored(s))) = 1
        /\ Stored(s)[1].role = "system"

\* C2: no lost update. Once every add_message call that was started on a
\* session has returned, the stored sequence holds the system turn and each
\* of the appended turns, as often as it was appended (the runs are too
\* short to reach compaction).
C2_NoLostUpdate ==
    (\A w \in Workers : wk[w].pc = "idle") =>
        \A s \in Sessions :
            calls[s] # <<>> =>
                /\ Len(Stored(s)) = Len(calls[s]) + 1
                /\ \A i \in 1..Len(calls[s]) :
                     Count(Tail(Stored(s)), calls[s][i]) = Count(calls[s], calls[s][i])

\* C3: append monotonicity below the threshold. After N sequential calls on a
\* fresh session, 1 <= N < 25, the stored sequence has length N + 1: a system
\* turn followed by the N appended turns in call order.
C3_AppendMonotonicity ==
    \A s \in Sessions :
        LET N == Len(calls[s])
        IN  (1 <= N /\ N < 25) =>
                /\ Len(Stored(s)) = N + 1
                /\ Stored(s)[1].role = "system"
                /\ Tail(Stored(s)) = calls[s]

C3_Witness ==
    /\ Len(calls["s1"]) = 24
    /\ Len(Stored("s1")) = 25
    /\ \E i \in 1..24 : calls["s1"][i] = Turn("system", Long)

\* C5: compaction trigger. add_message invokes compaction if and only if the
\* list is longer than 25 turns after the new turn was appended; in a
\* sequential run on a fresh session no call before the 25th invokes it, the
\* 25th does, and the stored length after the 25th call is 9.
C5_CompactionTrigger ==
    LastAppend =>
        LET k == Len(calls[last.sid])
        IN  /\ last.compacted <=> Len(last.pre) > 25
            /\ last.compacted <=> last.result # last.pre
            /\ k < 25 => ~last.compacted
            /\ k = 25 => (last.compacted /\ Len(last.pre) = 26 /\ Len(Stored(last.sid)) = 9)

C5_Witness ==
    /\ LastAppend
    /\ Len(calls[last.sid]) = 25
    /\ last.compacted
    /\ Len(Stored(last.sid)) = 9

\* C4: compaction bound. Whenever summarize_coding_context is handed a list
\* longer than 25 turns, the list it returns has exactly 9 turns, the first
\* of role system, whatever the length of the list it was handed.
C4_CompactionBound ==
    (last.op = "summarize" /\ Len(last.pre) > 25) =>
        /\ Len(last.result) = 9
        /\ last.result[1].role = "system"

C4_Witness ==
    /\ last.op = "summarize"
    /\ Len(last.pre) = 50
    /\ Len(last.result) = 9

\* is p the beginning of the text c
StartsWith(c, p) == Len(c) >= Len(p) /\ SubSeq(c, 1, Len(p)) = p

\* C6: metadata refresh on compaction. The system turn stored by a call that
\* compacts begins with the system prompt built from the metadata of that
\* call, and with the system prompt of no metadata that renders differently.
C6_MetadataRefresh ==
    (LastAppend /\ last.compacted) =>
        LET new == Stored(last.sid)[1]
        IN  /\ new.role = "system"
            /\ StartsWith(new.content, CreateCodingSystemPrompt(last.meta))
            /\ \A m \in Metas :
                 CreateCodingSystemPrompt(m) # CreateCodingSystemPrompt(last.meta)
                     => ~StartsWith(new.content, CreateCodingSystemPrompt(m))

C6_Witness ==
    /\ LastAppend
    /\ last.compacted
    /\ last.pre[1].content = CreateCodingSystemPrompt(Meta1)
    /\ last.meta = Meta2
    /\ StartsWith(Stored(last.sid)[1].content, CreateCodingSystemPrompt(Meta2))

\* C7: recency preservation. After a call that compacts, elements 2..9 of
\* the stored sequence are the last 8 turns of the list before compaction,
\* unchanged and in their order; the last element is the turn just appended.
C7_RecencyPreservation ==
    (LastAppend /\ last.compacted) =>
        LET n == Len(last.pre)
        IN  /\ Len(Stored(last.sid)) = 9
            /\ \A i \in 1..8 : Stored(last.sid)[1 + i] = last.pre[n - 8 + i]
            /\ Stored(last.sid)[9] = Turn(last.role, last.content)

C7_Witness ==
    /\ LastAppend
    /\ last.compacted
    /\ last.content = Long
    /\ Stored(last.sid)[9] = Turn(last.role, Long)

\* number of system turns the list begins with
LeadingSystem(list) ==
    CHOOSE n \in 0..Len(list) :
        /\ \A i \in 1..n : list[i].role = "system"
        /\ n < Len(list) => list[n + 1].role # "system"

\* C8: bounded summarization window. After a call that compacts, the new
\* system turn is the system prompt followed by the summary of the most
\* recent 12 middle turns, the middle turns being those after the leading
\* system turns and before the last 8; the stored sequence is that system
\* turn and the last 8 turns, so no older middle turn contributes to it.
C8_BoundedSummaryWindow ==
    (LastAppend /\ last.compacted) =>
        LET pre == last.pre
            middle == SubSeq(pre, LeadingSystem(pre) + 1, Len(pre) - 8)
            selected == SubSeq(middle, Max(Len(middle) - 12, 0) + 1, Len(middle))
        IN  Stored(last.sid) =
                <<Turn("system",
                       CreateCodingSystemPrompt(last.meta)
                       \o <<"\n\n", SummaryHeader>> \o SummaryLines(selected))>>
                \o SubSeq(pre, Len(pre) - 7, Len(pre))

\* C9: load of an absent session. load_session of a session without a file
\* returns the empty list and leaves the session directory as it was.
C9_LoadAbsent ==
    [][\A sid \in Sessions :
         (last'.op = "load" /\ last'.sid = sid /\ sid \notin DOMAIN store)
             => (last'.result = <<>> /\ store' = store)]_vars

C9_Witness ==
    /\ last.op = "load"
    /\ last.sid = "s2"
    /\ "s2" \notin DOMAIN store
    /\ "s1" \in DOMAIN store
    /\ last.result = <<>>

\* C10: lazy system-prompt injection. The first call on a session stores
\* exactly two turns, a system turn and the appended turn; with metadata None
\* or {} the system turn carries the no-context marker between the two parts
\* of the template, and no rendering of the metadata.
C10_LazySystemPrompt ==
    (LastAppend /\ Len(calls[last.sid]) = 1) =>
        LET t == Stored(last.sid)
        IN  /\ Len(t) = 2
            /\ t[1].role = "system"
            /\ t[2] = Turn(last.role, last.content)
            /\ (last.meta.none \/ last.meta.items = <<>>)
                   => t[1].content = <<PromptHead, NoContextMarker, PromptTail>>
            /\ ~(last.meta.none \/ last.meta.items = <<>>)
                   => \A i \in 1..Len(t[1].content) :
                          t[1].content[i] # NoContextMarker

C10_Witness ==
    /\ LastAppend
    /\ Len(calls[last.sid]) = 1
    /\ last.meta = EmptyMeta
    /\ Stored(last.sid)[1].content[2] = NoContextMarker

\* the request worker w is handling, and the session it is about
Req(w) == wk[w]

EngineFailures == {"CalledProcessError", "TimeoutExpired"}

C13_FailureResponseShape ==
    LET r == Req("w1")
    IN  (r.pc = "done" /\ r.outcome # "ok")
        => /\ {"session_id", "response", "error"} \subseteq DOMAIN r.resp
           /\ r.resp.session_id = r.sid
           /\ r.resp.response # <<>>
           /\ r.resp.response # r.resp.error

\* C14: when the write of the session file fails during the append of the
\* user turn, that step ends the request with an error for the caller, no
\* llama-cli run is started, and every session file is left as it was
C14_PersistenceFailureSurfaced ==
    [][(wk["w1"].pc = "called" /\ wk'["w1"].pc # "called"
        /\ wk'["w1"].userIo # "ok")
       => /\ wk'["w1"].pc = "done"
          /\ "error" \in DOMAIN wk'["w1"].resp
          /\ wk'["w1"].ran = 0
          /\ store' = store]_vars

Corrupt(s) == s \in DOMAIN store /\ ~store[s].valid

\* C15: a session file that does not parse is loaded as the empty list, the
\* load leaving the file alone, and the next append to that session whose
\* write succeeds stores the system prompt followed by the appended turn
C15_CorruptHistoryDiscarded ==
    [][\A s \in Sessions :
         /\ (Corrupt(s) /\ last'.op = "load" /\ last'.sid = s
             /\ calls' = calls /\ wk' = wk)
            => (last'.result = <<>> /\ store' = store)
         /\ (Corrupt(s) /\ calls'[s] # calls[s] /\ last'.io = "ok")
            => store'[s] =
                 FileOf(<<Turn("system", CreateCodingSystemPrompt(last'.meta)),
                          Turn(last'.role, last'.content)>>)]_vars

\* the write of the user turn was cut short, and the assistant turn of the
\* same request was then appended to the file that no longer parsed
C15_Witness ==
    /\ Req("w1").pc = "done"
    /\ Req("w1").outcome = "ok"
    /\ Req("w1").userIo = "partial"
    /\ last.op = "append"
    /\ last.io = "ok"
    /\ Stored(Req("w1").sid) =
         <<Turn("system", CreateCodingSystemPrompt(last.meta)),
           Turn("assistant", last.content)>>

\* C16: the list add_message returned is the content of the session file: as
\* long as no other append follows, load_session of that session returns
\* exactly the returned list
C16_WriteBackConsistency ==
    LastAppend => LoadSession(store, last.sid) = last.result

\* where the block of turn i begins in a transcript of messages: each block
\* before it takes a label, a separator, its content and a line break
RECURSIVE BlockStart(_, _)
BlockStart(messages, i) ==
    IF i = 1 THEN 1
    ELSE BlockStart(messages, i - 1) + Len(messages[i - 1].content) + 3

\* C18: the transcript of a request is, for each turn of the list in order,
\* the block "Role: content" followed by a line break, then the cue
\* "Assistant:" and nothing more, so that no turn is left out or repeated
C18_TranscriptStructure ==
    LET r == Req("w1")
        m == r.messages
        t == r.context
        n == Len(m)
    IN  r.outcome \in {"running", "no model", "ok"} \cup EngineFailures
        => /\ n >= 1
           /\ Len(t) = BlockStart(m, n) + Len(m[n].content) + 3
           /\ t[Len(t)] = "Assistant:"
           /\ \A i \in 1..n :
                LET b == BlockStart(m, i)
                    c == m[i].content
                IN  /\ t[b] = Title(m[i].role)
                    /\ t[b + 1] = ": "
                    /\ SubSeq(t, b + 2, b + 1 + Len(c)) = c
                    /\ t[b + 2 + Len(c)] = "\n"

\* the transcript of the second request of a session: system, user,
\* assistant and user turn
C18_Witness ==
    /\ Req("w1").outcome = "running"
    /\ Len(Req("w1").messages) = 4
    /\ Req("w1").context # <<>>

Tokens(text) == {text[i] : i \in 1..Len(text)}

\* C19: the cleaned response is made of what follows the last "Assistant:"
\* of the output when there is one, and none of its lines begins with
\* "User:", "Human:" or "Assistant:"
C19_OutputPostProcessing ==
    last.op = "clean"
    => /\ Tokens(last.result) \subseteq Tokens(AfterLast(last.content, "Assistant:"))
       /\ Len(last.result) <= Len(AfterLast(last.content, "Assistant:"))
       /\ \A k \in 1..Len(SplitLines(last.result)) :
            ~StartsWithLabel(SplitLines(last.result)[k])

\* C20: an append that compacts a list holding a turn of unexpected shape
\* (a turn without content, say) still returns and saves the compacted
\* list: no call of add_message ends with an exception of the compaction
C20_CompactionNeverFails ==
    last.op # "KeyError"

\* C21: a step of a call of add_message on one session, whether it reads or
\* writes, leaves the file of every other session as it was, existing or
\* not, however the calls on the two sessions interleave
C21_SessionIndependence ==
    [][\A w \in Workers :
         wk'[w] # wk[w]
         => \A b \in Sessions \ {IF wk[w].pc = "loaded" THEN wk[w].sid ELSE wk'[w].sid} :
              /\ (b \in DOMAIN store') = (b \in DOMAIN store)
              /\ b \in DOMAIN store => store'[b] = store[b]]_vars

\* both sessions have a file, and a call on s1 has read its file and not
\* yet written it
C21_Witness ==
    /\ Stored("s1") # <<>>
    /\ Stored("s2") # <<>>
    /\ Stored("s1") # Stored("s2")
    /\ \E w \in Workers : wk[w].pc = "loaded" /\ wk[w].sid = "s1"

\* C22: in every step of a request, llama-cli is started only when the
\* session file ends with the user turn of the request, an assistant turn
\* is appended only by the step that ends a run of llama-cli which returned
\* its output, and llama-cli is started at most once for the request
C22_CommitOrdering ==
    [][LET r == wk["w1"]
           q == wk'["w1"]
           stored == LoadSession(store, r.sid)
       IN  /\ q.ran <= 1
           /\ q.ran > r.ran
              => /\ stored # <<>>
                 /\ stored[Len(stored)] = Turn("user", CodingPrompt(r.prompt, r.meta))
           /\ (calls' # calls /\ last'.role = "assistant")
              => /\ r.pc = "engine"
                 /\ r.ran = 1
                 /\ q.outcome = "ok"
                 /\ q.pc = "done"]_vars

\* a request that ended well: one run of llama-cli, and the file ends with
\* the user turn and the assistant turn of the request
C22_Witness ==
    LET r == Req("w1")
        stored == Stored(r.sid)
    IN  /\ r.pc = "done"
        /\ r.outcome = "ok"
        /\ r.ran = 1
        /\ Len(stored) >= 3
        /\ stored[Len(stored) - 1] = Turn("user", CodingPrompt(r.prompt, r.meta))
        /\ stored[Len(stored)].role = "assistant"

\* C23: an append that is not the first of its session and does not compact
\* stores the list that was stored before followed by the new turn: no
\* earlier turn changes, the system turn included, whatever the metadata of
\* the call
C23_MetadataNotRetroactive ==
    [][\A s \in Sessions :
         (calls'[s] # calls[s] /\ Stored(s) # <<>> /\ ~last'.compacted)
         => /\ s \in DOMAIN store'
            /\ store'[s].turns = Stored(s) \o <<Turn(last'.role, last'.content)>>]_vars

\* a later append without compaction whose metadata is not the metadata the
\* system turn was built from
C23_Witness ==
    /\ LastAppend
    /\ ~last.compacted
    /\ Len(calls["s1"]) >= 3
    /\ last.meta = Meta2
    /\ Stored("s1")[1] = Turn("system", CreateCodingSystemPrompt(Meta1))
    /\ CreateCodingSystemPrompt(Meta1) # CreateCodingSystemPrompt(Meta2)

\* the first characters of a content, at most cap of them
Paraphrase(content, cap) ==
    SubSeq(content, 1, IF Len(content) < cap THEN Len(content) ELSE cap)

\* the content holds three backquotes in a row
Fence(content) ==
    \E i \in 1..(Len(content) - 2) :
        \A j \in i..(i + 2) : content[j] = Backquote

\* the line the summary is to have for a selected turn
ExpectedLine(msg) ==
    CASE msg.role = "user" ->
           <<"* User asked: ">> \o Paraphrase(msg.content, 150) \o <<"...\n">>
      [] msg.role = "assistant" /\ Fence(msg.content) ->
           <<"-  Assistant provided code solution\n">>
      [] msg.role = "assistant" /\ ~Fence(msg.content) ->
           <<"-  Assistant explained: ">> \o Paraphrase(msg.content, 100) \o <<"...\n">>
      [] OTHER -> <<>>

\* where the line of selected turn i begins in the text after the header
RECURSIVE LineStart(_, _)
LineStart(selected, i) ==
    IF i = 1 THEN 1
    ELSE LineStart(selected, i - 1) + Len(ExpectedLine(selected[i - 1]))

\* C24: the summary text of a compaction is its header followed, in the
\* order of the selected turns, by one line per selected user turn (at most
\* the first 150 characters of the content) and one per selected assistant
\* turn (the code-solution marker when the content holds a code fence, else
\* at most the first 100 characters), and nothing else
C24_SummaryLinePerTurn ==
    (last.op = "summarize" /\ last.compacted)
    => LET sel == SelectedMsgs(last.pre)
           n == Len(sel)
           content == last.result[1].content
           skip == Len(CreateCodingSystemPrompt(last.meta)) + 2
           lines == SubSeq(content, skip + 1, Len(content))
       IN  /\ content[skip] = SummaryHeader
           /\ Len(lines) = IF n = 0 THEN 0
                           ELSE LineStart(sel, n) + Len(ExpectedLine(sel[n])) - 1
           /\ \A i \in 1..n :
                SubSeq(lines, LineStart(sel, i),
                       LineStart(sel, i) + Len(ExpectedLine(sel[i])) - 1)
                = ExpectedLine(sel[i])

\* twelve turns are summarized, one of them a user turn longer than 150
\* characters
C24_Witness ==
    /\ last.op = "summarize"
    /\ last.compacted
    /\ Len(SelectedMsgs(last.pre)) = SummaryWindow
    /\ \E i \in 1..SummaryWindow : SelectedMsgs(last.pre)[i] = Turn("user", Long)

\* the turns of the long run whose content occurs in a text
TurnsIn(text) ==
    {k \in 1..Len(calls["s1"]) : LongContent(k)[1] \in Tokens(text)}

\* the turns of the long run that are in a list of turns
TurnsOf(list) ==
    {k \in 1..Len(calls["s1"]) :
        \E i \in 1..Len(list) : list[i].content = LongContent(k)}

\* C25: the system turn a compaction produces begins with the system
\* prompt of the metadata of the call, holds one prompt and one summary
\* header, and paraphrases the turns selected by this compaction and no
\* other turn: nothing of the summary of an earlier compaction is in it
C25_NoRecursiveSummary ==
    (LastAppend /\ last.compacted)
    => LET content == last.result[1].content
       IN  /\ last.result[1].role = "system"
           /\ StartsWith(content, CreateCodingSystemPrompt(last.meta))
           /\ Count(content, PromptHead) = 1
           /\ Count(content, SummaryHeader) = 1
           /\ TurnsIn(content) = TurnsOf(SelectedMsgs(last.pre))

\* a second compaction: the system turn it replaces holds the summary of
\* the first one
C25_Witness ==
    /\ LastAppend
    /\ last.compacted
    /\ Len(calls["s1"]) > Threshold
    /\ Count(last.pre[1].content, SummaryHeader) = 1
    /\ TurnsIn(last.pre[1].content) # {}

\* C26: after every call of a sequential run on a fresh session the stored
\* list has at least 2 and at most 25 turns
C26_BoundedHistory ==
    \A s \in Sessions :
        calls[s] # <<>> => (Len(Stored(s)) >= 2 /\ Len(Stored(s)) <= Threshold)

\* the list is full for the second time, after a compaction
C26_Witness ==
    /\ Len(calls["s1"]) > Threshold
    /\ Len(Stored("s1")) = Threshold

\* C27: in a run of user and assistant appends on a fresh session the k-th
\* call compacts exactly when k = 25 + 17 * j for some j >= 0, so never two
\* calls in a row
C27_CompactionPeriod ==
    LastAppend
    => LET k == Len(calls["s1"])
       IN  last.compacted <=> (k >= 25 /\ (k - 25) % 17 = 0)

\* the third compaction of a run, on call 59
C27_Witness ==
    /\ LastAppend
    /\ last.compacted
    /\ Len(calls["s1"]) = 59

\* the calls of the run worked out again from their history: for each of
\* the first n calls the list it had in hand before it decided about
\* compaction, and the list it saved
RECURSIVE Replay(_)
Replay(n) ==
    IF n = 0 THEN <<>>
    ELSE LET log == Replay(n - 1)
             loaded == IF Len(log) = 0 THEN <<>> ELSE log[Len(log)].result
             turn == calls["s1"][n]
         IN  Append(log,
                    [pre |-> Appended(loaded, turn.role, turn.content, Meta1),
                     result |-> AddMessageResult(loaded, turn.role, turn.content,
                                                 Meta1)])

\* the turns each call of the run so far put into a summary
Summarized ==
    LET log == Replay(Len(calls["s1"]))
    IN  [n \in 1..Len(log) |->
            IF Len(log[n].pre) > Threshold
            THEN TurnsOf(SelectedMsgs(log[n].pre))
            ELSE {}]

\* C28: over a run of user and assistant appends on a fresh session no turn
\* is put into the summary of two compactions, and each compaction removes
\* from the stored list exactly 5 turns that no summary ever included
C28_SummarizedAtMostOnce ==
    LET k == Len(calls["s1"])
        summarized == Summarized
    IN  /\ \A n1 \in 1..k, n2 \in 1..k :
             n1 < n2 => summarized[n1] \cap summarized[n2] = {}
        /\ (LastAppend /\ last.compacted)
           => Cardinality((TurnsOf(last.pre) \ TurnsOf(last.result))
                          \ UNION {summarized[n] : n \in 1..k}) = 5

\* the second compaction of a run
C28_Witness ==
    /\ LastAppend
    /\ last.compacted
    /\ Len(calls["s1"]) = 42
    /\ Cardinality(Summarized[25]) = SummaryWindow
    /\ Cardinality(Summarized[42]) = SummaryWindow
\* the user turn a request appends
UserTurn(r) == Turn("user", CodingPrompt(r.prompt, r.meta))

\* C29: whenever llama-cli runs for a request, however the requests on the
\* session interleave, the transcript it was given was built from a list
\* of at most 25 turns that begins with a system turn and ends with the
\* user turn of that request
C29_TranscriptGivenToEngine ==
    \A w \in Workers :
        wk[w].pc = "engine"
        => LET m == wk[w].messages
           IN  /\ wk[w].context = BuildTranscript(m)
               /\ Len(m) >= 2
               /\ Len(m) <= Threshold
               /\ m[1].role = "system"
               /\ m[Len(m)] = UserTurn(wk[w])

\* llama-cli runs for one request while the session file already ends with
\* the user turn of the other request
C29_Witness ==
    /\ wk["w1"].pc = "engine"
    /\ wk["w2"].pc \in {"appended", "engine"}
    /\ UserTurn(wk["w1"]) # UserTurn(wk["w2"])
    /\ Stored("s1")[Len(Stored("s1"))] = UserTurn(wk["w2"])

\* C30: the step that writes the assistant turn of a request leaves a
\* session file that ends with the user turn of that request followed by
\* that assistant turn, also when another request on the session is in
\* flight
C30_ReplyAdjacency ==
    [][\A w \in Workers :
         (wk[w].pc = "replying" /\ wk'[w].pc = "done")
         => LET stored == store'[wk[w].sid].turns
                n == Len(stored)
            IN  /\ n >= 3
                /\ stored[n] = Turn("assistant", wk[w].resp.response)
                /\ stored[n - 1] = UserTurn(wk[w])]_vars

====
